---- MODULE Spec2Model ----
(***************************************************************************)
(* A model of pint/models/timing_model.py: the Parameter class (parfile    *)
(* line printing and parsing, aliases) and the TimingModel class           *)
(* (parameter registration, derivative providers, parfile reading and      *)
(* writing).                                                               *)
(*                                                                         *)
(* Text.  The code only ever looks at a line through strip(), split(),     *)
(* startswith('#') and the conversions of single tokens, so a line is the  *)
(* sequence of its whitespace-separated tokens and a file is a sequence    *)
(* of lines.  A token is a word, an integer numeral or a decimal numeral.  *)
(*                                                                         *)
(* Numbers.  A float is a sign, its significant decimal digits (no         *)
(* leading or trailing zero, <<0>> for zero) and a decimal exponent.       *)
(* Python 2's str(float) formats with "%.12g": it keeps StrDigits          *)
(* significant digits.                                                     *)
(***************************************************************************)
EXTENDS Integers, Sequences, FiniteSets, TLC

\* ------------------------------------------------------------- bounds
\* Parameter objects that may exist at once (PSR included).
MaxParams == 2
\* Most significant digits of a float drawn as an input.
MaxSigDigits == 13
\* Most lines of a parfile drawn as an input.
MaxLines == 2
\* Most provider functions registered on one model.
MaxProviders == 2
\* Longest alias list add_alias builds.
MaxAliases == 3

\* Significant digits kept by Python 2's str() of a float ("%.12g").
StrDigits == 12

\* ------------------------------------------------------------- tokens
Word(s) == [t |-> "w", w |-> s, n |-> 0, neg |-> FALSE, d |-> <<>>, e |-> 0, m |-> ""]
IntTok(i) == [t |-> "i", w |-> "", n |-> i, neg |-> FALSE, d |-> <<>>, e |-> 0, m |-> ""]
\* A decimal numeral: digits d, exponent e, exponent marker m ("e" or "D").
DecTok(neg, d, e, m) == [t |-> "f", w |-> "", n |-> 0, neg |-> neg, d |-> d, e |-> e, m |-> m]

\* str.upper() on the words of the model's alphabet.
UpperStr(s) ==
  CASE s = "psr" -> "PSR"
    [] s = "psrj" -> "PSRJ"
    [] s = "f0" -> "F0"
    [] s = "delay" -> "DELAY"
    [] OTHER -> s

\* k[0].upper(): a numeral's text has no lower-case letter but the marker.
Upper(tok) == [tok EXCEPT !.w = UpperStr(@), !.m = IF @ = "e" THEN "E" ELSE @]

\* The words of the alphabet that begin with '#'.
HashWords == {"#", "#F0"}

\* l.startswith('#') on a stripped, non-empty line.
StartsWithHash(line) == line[1].t = "w" /\ line[1].w \in HashWords

\* ------------------------------------------------------------- values
None == [kind |-> "none", neg |-> FALSE, d |-> <<>>, e |-> 0, s |-> <<>>]
Flt(neg, d, e) == [kind |-> "float", neg |-> neg, d |-> d, e |-> e, s |-> <<>>]
\* A Python string, as the sequence of its whitespace-separated tokens.
Str(toks) == [kind |-> "str", neg |-> FALSE, d |-> <<>>, e |-> 0, s |-> toks]
\* The outcome of a conversion that raises ValueError.
ValueError == [kind |-> "ValueError", neg |-> FALSE, d |-> <<>>, e |-> 0, s |-> <<>>]

RECURSIVE StripZeros(_)
StripZeros(d) ==
  IF Len(d) > 1 /\ d[Len(d)] = 0 THEN StripZeros(SubSeq(d, 1, Len(d) - 1)) ELSE d

\* d + 1 in the last place; carry is TRUE when every digit was 9.
RECURSIVE Increment(_)
Increment(d) ==
  IF d = <<>> THEN [d |-> <<>>, carry |-> TRUE]
  ELSE IF d[Len(d)] < 9
    THEN [d |-> [d EXCEPT ![Len(d)] = @ + 1], carry |-> FALSE]
    ELSE LET r == Increment(SubSeq(d, 1, Len(d) - 1))
         IN  [d |-> Append(r.d, 0), carry |-> r.carry]

\* A float rounded to k significant digits, as "%.<k>g" formats it.
RoundSig(v, k) ==
  IF Len(v.d) <= k THEN v
  ELSE LET head == SubSeq(v.d, 1, k)
           up == Increment(head)
       IN  IF v.d[k + 1] < 5 THEN Flt(v.neg, StripZeros(head), v.e)
           ELSE IF up.carry THEN Flt(v.neg, <<1>>, v.e + 1)
           ELSE Flt(v.neg, StripZeros(up.d), v.e)

\* Digits of a natural number below 100.
NatDigits(i) == IF i < 10 THEN <<i>> ELSE StripZeros(<<i \div 10, i % 10>>)

\* str(x) of Python 2, as the tokens of the text it returns.
PyStr(v) ==
  CASE v.kind = "float" ->
         LET r == RoundSig(v, StrDigits) IN <<DecTok(r.neg, r.d, r.e, "e")>>
    [] v.kind = "str" -> v.s
    [] OTHER -> <<Word("None")>>

\* str(tok): the Python string a token is.
TokStr(tok) == Str(<<tok>>)

\* fortran_float(tok): float() after turning a D or d exponent marker into e.
FortranFloat(tok) ==
  CASE tok.t = "f" -> Flt(tok.neg, tok.d, tok.e)
    [] tok.t = "i" ->
         IF tok.n < 0 THEN Flt(TRUE, NatDigits(0 - tok.n), IF tok.n <= -10 THEN 1 ELSE 0)
         ELSE Flt(FALSE, NatDigits(tok.n), IF tok.n >= 10 THEN 1 ELSE 0)
    [] OTHER -> ValueError

\* int(tok): only an integer numeral converts.
PyInt(tok) == IF tok.t = "i" THEN [ok |-> TRUE, n |-> tok.n] ELSE [ok |-> FALSE, n |-> 0]

\* ---------------------------------------------------------- Parameter
VARIABLES
  heap,          \* the Parameter objects, by identity 1..Len(heap)
  lists,         \* the alias list objects; lists[1] is the default of __init__
  params,        \* TimingModel.params: the registered names, in order
  attrs,         \* TimingModel's parameter attributes: name -> identity
  delay_derivs,  \* TimingModel.delay_derivs: name -> provider results
  phase_derivs,  \* TimingModel.phase_derivs: name -> provider results
  pc,            \* where read_parfile is: "idle", "reading", "returned", "raised"
  file,          \* the lines readlines() returned
  idx,           \* the next line of file to process
  warned,        \* the lines warn() was called with, in order
  setupCalls,    \* calls of setup() made by the current read_parfile
  fileOpen,      \* whether the handle opened by read_parfile is still open
  snap,          \* heap when as_parfile last produced the text being read
  call           \* the last call: operation, arguments, result, exception

vars == <<heap, lists, params, attrs, delay_derivs, phase_derivs, pc, file, idx,
          warned, setupCalls, fileOpen, snap, call>>

modelVars == <<params, attrs, delay_derivs, phase_derivs>>
readVars == <<pc, file, idx, warned, setupCalls, fileOpen, snap>>

\* The list object bound to the default argument aliases=[] of __init__.
DefaultAliases == 1

\* Parameter.__init__: the fields the modelled methods read or write.  parse is
\* "fortran_float" or "str"; print_value is str for both.
Parameter(name, value, uncertainty, frozen, continuous, aliases, parse) ==
  [name |-> name, value |-> value, uncertainty |-> uncertainty, frozen |-> frozen,
   continuous |-> continuous, aliases |-> aliases, parse |-> parse]

\* self.parse_value(value)
ParseValue(parse, tok) == IF parse = "str" THEN TokStr(tok) ELSE FortranFloat(tok)

\* Parameter.as_parfile_line: the lines of the returned text ("" has none).
as_parfile_line(self) ==
  IF self.value = None THEN <<>>
  ELSE LET line == <<Word(self.name)>> \o PyStr(self.value)
       IN  IF self.uncertainty # None
           THEN <<line \o <<IntTok(IF self.frozen THEN 0 ELSE 1)>> \o PyStr(self.uncertainty)>>
           ELSE IF ~self.frozen THEN <<line \o <<IntTok(1)>>>>
           ELSE <<line>>

\* (name != self.name) and (name not in self.aliases) is false
NameMatches(self, name, al) ==
  name = Word(self.name) \/ \E i \in 1..Len(al[self.aliases]) : name = Word(al[self.aliases][i])

\* A fit flag that also freezes: frozen follows the flag both ways.
FitFlagBothWays(frozen, flag) == ~(flag > 0)

\* if int(k[2])>0: self.frozen = False
FitFlag(frozen, flag) == IF flag > 0 THEN FALSE ELSE frozen

\* if len(k)==4
HasUncertainty(k) == Len(k) = 4

\* Parameter.from_parfile_line: the parameter after the call, the value
\* returned and the exception raised ("" for none).
from_parfile_line(self, k, al) ==
  LET Return(p, r) == [self |-> p, ret |-> r, exc |-> ""]
      Raise(p) == [self |-> p, ret |-> FALSE, exc |-> "ValueError"]
  IN  IF Len(k) = 0 THEN Return(self, FALSE)
      ELSE IF ~NameMatches(self, Upper(k[1]), al) THEN Return(self, FALSE)
      ELSE IF Len(k) < 2 THEN Return(self, FALSE)
      ELSE LET v == ParseValue(self.parse, k[2])
               s1 == [self EXCEPT !.value = v]
           IN  IF v = ValueError THEN Raise(self)
               ELSE IF Len(k) >= 3 /\ ~PyInt(k[3]).ok THEN Raise(s1)
               ELSE LET s2 == IF Len(k) >= 3
                              THEN [s1 EXCEPT !.frozen = FitFlag(@, PyInt(k[3]).n)]
                              ELSE s1
                    IN  IF HasUncertainty(k)
                        THEN IF FortranFloat(k[4]) = ValueError THEN Raise(s2)
                             ELSE Return([s2 EXCEPT !.uncertainty = FortranFloat(k[4])], TRUE)
                        ELSE Return(s2, TRUE)

\* -------------------------------------------------------- TimingModel
\* The attributes every TimingModel has besides its parameters: those set by
\* __init__ and the methods of the class.
ModelAttrs ==
  {"params", "delay_funcs", "phase_funcs", "delay_derivs", "phase_derivs",
   "d_phase_funcs", "setup", "add_param", "param_help", "phase", "delay",
   "d_phase_d_tpulsar", "d_phase_d_toa", "d_phase_d_param", "d_delay_d_param",
   "as_parfile", "read_parfile"}

\* hasattr that forgets the attributes add_param has set.
HasAttrClassOnly(name) == name \in ModelAttrs

\* hasattr(self, name)
HasAttr(name) == name \in DOMAIN attrs \/ name \in ModelAttrs

\* result = 0.0; for f in fs: result += f(toa)
RECURSIVE Sum(_)
Sum(fs) == IF fs = <<>> THEN 0 ELSE fs[1] + Sum(Tail(fs))

\* TimingModel.as_parfile: the lines of the returned text.
RECURSIVE as_parfile(_)
as_parfile(names) ==
  IF names = <<>> THEN <<>>
  ELSE as_parfile_line(heap[attrs[names[1]]]) \o as_parfile(Tail(names))

\* if not l: continue / if l.startswith('#'): continue, skipping blanks only.
SkipLineBlankOnly(l) == Len(l) = 0

\* if not l: continue / if l.startswith('#'): continue
SkipLine(l) == Len(l) = 0 \/ StartsWithHash(l)

\* for par in self.params: if getattr(self,par).from_parfile_line(l): parsed = True
\* The heap after the loop, whether a parameter claimed the line, and the
\* exception that ended the loop ("" for none).
RECURSIVE OfferLine(_, _, _, _)
OfferLine(names, l, h, parsed) ==
  IF names = <<>> THEN [heap |-> h, parsed |-> parsed, exc |-> ""]
  ELSE LET p == attrs[names[1]]
           r == from_parfile_line(h[p], l, lists)
           h2 == [h EXCEPT ![p] = r.self]
       IN  IF r.exc # "" THEN [heap |-> h2, parsed |-> parsed, exc |-> r.exc]
           ELSE OfferLine(Tail(names), l, h2, parsed \/ r.ret)

\* ------------------------------------------------------- call records
NoCall == [op |-> "", obj |-> 0, arg |-> "", line |-> <<>>, ret |-> FALSE,
           num |-> 0, exc |-> "", excArg |-> ""]

\* ------------------------------------------------------------- inputs
Zeros(n) == [i \in 1..n |-> 0]
Nines(n) == [i \in 1..n |-> 9]
\* 1.0...05 and 9.9...9 with n significant digits.
SigLens == {1, 2, MaxSigDigits - 1, MaxSigDigits}
FloatInputs ==
  {Flt(FALSE, IF n = 1 THEN <<1>> ELSE <<1>> \o Zeros(n - 2) \o <<5>>, 0) : n \in SigLens}
    \cup {Flt(FALSE, Nines(n), 0) : n \in SigLens}
StrInputs == {Str(<<Word("J1234")>>), Str(<<Word("J1234"), IntTok(12)>>)}
UncInputs == {None, Flt(FALSE, <<2, 5>>, -4), Flt(FALSE, <<1>> \o Zeros(MaxSigDigits - 2) \o <<5>>, -4)}

NameToks == {Word("PSR"), Word("psrj"), Word("f0")}
ValueToks == {DecTok(FALSE, <<1, 5>>, 0, "D"), Word("J0437")}
FlagToks == {IntTok(-1), IntTok(0), IntTok(1), Word("x")}
UncToks == {DecTok(FALSE, <<3>>, -4, "e"), Word("x")}
ExtraToks == {Word("extra")}
Lines ==
  {<<>>} \cup {<<a>> : a \in NameToks}
    \cup {<<a, b>> : a \in NameToks, b \in ValueToks}
    \cup {<<a, b, c>> : a \in NameToks, b \in ValueToks, c \in FlagToks}
    \cup {<<a, b, c, d>> : a \in NameToks, b \in ValueToks, c \in FlagToks, d \in UncToks}
    \cup {<<a, b, c, d, x>> : a \in NameToks, b \in ValueToks, c \in FlagToks,
                              d \in UncToks, x \in ExtraToks}

\* ------------------------------------------- specification: Parameter
\* One Parameter after construction: PSR as TimingModel.__init__ builds it
\* (with any state), or a float parameter F0 built with the default aliases.
InitParam ==
  /\ lists = <<<<>>, <<"PSRJ", "PSRB">>>>
  /\ \E fz \in BOOLEAN, u \in UncInputs :
       \/ \E v \in StrInputs \cup {None} :
            heap = <<Parameter("PSR", v, u, fz, TRUE, 2, "str")>>
       \/ \E v \in FloatInputs \cup {None} :
            heap = <<Parameter("F0", v, u, fz, TRUE, DefaultAliases, "fortran_float")>>
  /\ params = <<>> /\ attrs = <<>> /\ delay_derivs = <<>> /\ phase_derivs = <<>>
  /\ pc = "idle" /\ file = <<>> /\ idx = 1 /\ warned = <<>> /\ setupCalls = 0
  /\ fileOpen = FALSE /\ snap = <<>>
  /\ call = NoCall

\* p.from_parfile_line(line), called directly.
FromParfileLine(p, line) ==
  LET r == from_parfile_line(heap[p], line, lists)
  IN  /\ heap' = [heap EXCEPT ![p] = r.self]
      /\ call' = [NoCall EXCEPT !.op = "from_parfile_line", !.obj = p, !.line = line,
                                !.ret = r.ret, !.exc = r.exc]
      /\ UNCHANGED <<lists, modelVars, readVars>>

\* fresh = Parameter(name, ...) built as heap[1] was but with the default
\* value, uncertainty and frozen; fresh.from_parfile_line(heap[1].as_parfile_line()).
RoundTrip ==
  /\ Len(heap) = 1
  /\ LET orig == heap[1]
         text == as_parfile_line(orig)
         explicit == orig.aliases # DefaultAliases
         lists2 == IF explicit THEN Append(lists, lists[orig.aliases]) ELSE lists
         fresh == Parameter(orig.name, None, None, TRUE, orig.continuous,
                            IF explicit THEN Len(lists2) ELSE DefaultAliases, orig.parse)
         r == from_parfile_line(fresh, IF text = <<>> THEN <<>> ELSE text[1], lists2)
     IN  /\ lists' = lists2
         /\ heap' = Append(heap, r.self)
         /\ call' = [NoCall EXCEPT !.op = "round_trip", !.obj = 2,
                                   !.line = IF text = <<>> THEN <<>> ELSE text[1],
                                   !.ret = r.ret, !.exc = r.exc]
  /\ UNCHANGED <<modelVars, readVars>>

NextParam == \E p \in 1..Len(heap), line \in Lines : FromParfileLine(p, line)

SpecParam == InitParam /\ [][NextParam]_vars

\* The round trip of one drawn Parameter through its parfile line.
NextRoundTrip == RoundTrip

SpecRoundTrip == InitParam /\ [][NextRoundTrip]_vars

\* --------------------------------------- specification: TimingModel
Names == {"PSR", "PSRJ", "F0", "delay"}
\* What a registered provider function returns for the TOA at hand.
ProviderInputs == {1, 2}

\* TimingModel.__init__
Init ==
  /\ lists = <<<<>>, <<"PSRJ", "PSRB">>>>
  /\ heap = <<Parameter("PSR", None, None, TRUE, TRUE, 2, "str")>>
  /\ params = <<"PSR">>
  /\ attrs = ("PSR" :> 1)
  /\ delay_derivs = ("PSR" :> <<>>)
  /\ phase_derivs = ("PSR" :> <<>>)
  /\ pc = "idle" /\ file = <<>> /\ idx = 1 /\ warned = <<>> /\ setupCalls = 0
  /\ fileOpen = FALSE /\ snap = <<>>
  /\ call = NoCall

\* Parameter(name=..., ...): with explicit, aliases is the list al the caller
\* passes (a new list object); without, it is the default argument's list.
NewParameter(name, value, uncertainty, frozen, continuous, explicit, al, parse) ==
  /\ Len(heap) < MaxParams
  /\ lists' = IF explicit THEN Append(lists, al) ELSE lists
  /\ heap' = Append(heap, Parameter(name, value, uncertainty, frozen, continuous,
                                    IF explicit THEN Len(lists) + 1 ELSE DefaultAliases,
                                    parse))
  /\ call' = [NoCall EXCEPT !.op = "Parameter", !.obj = Len(heap) + 1]
  /\ UNCHANGED <<modelVars, readVars>>

\* TimingModel.add_param(heap[p])
AddParam(p) ==
  LET param == heap[p] IN
  /\ pc # "reading"
  /\ IF HasAttr(param.name)
     THEN /\ call' = [NoCall EXCEPT !.op = "add_param", !.obj = p,
                                    !.exc = "DuplicateParameter", !.excArg = param.name]
          /\ UNCHANGED modelVars
     ELSE /\ attrs' = (param.name :> p) @@ attrs
          /\ params' = params \o <<param.name>>
          /\ IF param.continuous
             THEN /\ delay_derivs' = (param.name :> <<>>) @@ delay_derivs
                  /\ phase_derivs' = (param.name :> <<>>) @@ phase_derivs
             ELSE UNCHANGED <<delay_derivs, phase_derivs>>
          /\ call' = [NoCall EXCEPT !.op = "add_param", !.obj = p]
  /\ UNCHANGED <<heap, lists, readVars>>

\* The providers registered in dd for the names in S.
RECURSIVE ProviderCount(_, _)
ProviderCount(dd, S) ==
  IF S = {} THEN 0
  ELSE LET n == CHOOSE x \in S : TRUE IN Len(dd[n]) + ProviderCount(dd, S \ {n})

\* A component registers a provider: self.delay_derivs[name] += [f].
RegisterDelayDeriv(name, f) ==
  /\ name \in DOMAIN delay_derivs
  /\ ProviderCount(delay_derivs, DOMAIN delay_derivs) < MaxProviders
  /\ delay_derivs' = [delay_derivs EXCEPT ![name] = @ \o <<f>>]
  /\ call' = [NoCall EXCEPT !.op = "register", !.arg = name]
  /\ UNCHANGED <<heap, lists, params, attrs, phase_derivs, readVars>>

\* TimingModel.d_delay_d_param(toa, name)
DDelayDParam(name) ==
  /\ IF name \in DOMAIN delay_derivs
     THEN call' = [NoCall EXCEPT !.op = "d_delay_d_param", !.arg = name,
                                 !.num = Sum(delay_derivs[name])]
     ELSE call' = [NoCall EXCEPT !.op = "d_delay_d_param", !.arg = name,
                                 !.exc = "KeyError", !.excArg = name]
  /\ UNCHANGED <<heap, lists, modelVars, readVars>>

Next ==
  \/ \E name \in Names, continuous \in BOOLEAN, explicit \in BOOLEAN :
       NewParameter(name, None, None, TRUE, continuous, explicit, <<>>, "fortran_float")
  \/ \E p \in 1..Len(heap) : AddParam(p)
  \/ \E name \in DOMAIN delay_derivs, f \in ProviderInputs : RegisterDelayDeriv(name, f)
  \/ \E name \in Names : DDelayDParam(name)

Spec == Init /\ [][Next]_vars

\* ------------------------------------------- specification: aliases
AliasInputs == {"F0", "PSRJ", "DM"}
AliasLines == {<<Word(a), DecTok(FALSE, <<1, 5>>, 0, "e")>> : a \in AliasInputs}

\* Two Parameter objects after their construction, each built either with
\* an aliases argument or without one.
InitAlias ==
  /\ \E e1 \in BOOLEAN, e2 \in BOOLEAN :
       /\ lists = <<<<>>>> \o (IF e1 THEN <<<<>>>> ELSE <<>>)
                           \o (IF e2 THEN <<<<"PSRJ", "PSRB">>>> ELSE <<>>)
       /\ heap = <<Parameter("F0", None, None, TRUE, TRUE,
                             IF e1 THEN 2 ELSE DefaultAliases, "fortran_float"),
                   Parameter("PSR", None, None, TRUE, TRUE,
                             IF e2 THEN (IF e1 THEN 3 ELSE 2) ELSE DefaultAliases, "str")>>
  /\ params = <<>> /\ attrs = <<>> /\ delay_derivs = <<>> /\ phase_derivs = <<>>
  /\ pc = "idle" /\ file = <<>> /\ idx = 1 /\ warned = <<>> /\ setupCalls = 0
  /\ fileOpen = FALSE /\ snap = <<>>
  /\ call = NoCall

\* Parameter.add_alias: self.aliases.append(alias)
AddAlias(p, alias) ==
  /\ Len(lists[heap[p].aliases]) < MaxAliases
  /\ lists' = [lists EXCEPT ![heap[p].aliases] = Append(@, alias)]
  /\ call' = [NoCall EXCEPT !.op = "add_alias", !.obj = p, !.arg = alias]
  /\ UNCHANGED <<heap, modelVars, readVars>>

NextAlias ==
  \/ \E p \in 1..Len(heap), alias \in AliasInputs : AddAlias(p, alias)
  \/ \E p \in 1..Len(heap), line \in AliasLines : FromParfileLine(p, line)

SpecAlias == InitAlias /\ [][NextAlias]_vars

\* ---------------------------------------- specification: read_parfile
ReadLines ==
  { <<>>,
    <<Word("#F0"), DecTok(FALSE, <<1, 5>>, 0, "e")>>,
    <<Word("psrj"), Word("J0437")>>,
    <<Word("DM"), DecTok(FALSE, <<1, 5>>, 0, "e")>>,
    <<Word("F0"), DecTok(FALSE, <<1, 5>>, 0, "D"), IntTok(1), DecTok(FALSE, <<3>>, -4, "e")>>,
    <<Word("F0"), DecTok(FALSE, <<1, 5>>, 0, "e"), Word("x")>> }

RECURSIVE FilesUpTo(_)
FilesUpTo(n) ==
  IF n = 0 THEN {<<>>}
  ELSE LET shorter == FilesUpTo(n - 1)
       IN  shorter \cup {Append(f, l) : f \in {g \in shorter : Len(g) = n - 1}, l \in ReadLines}

Files == FilesUpTo(MaxLines)

\* m = TimingModel(); m.PSR.value = ...; m.add_param(x) for one drawn x: a
\* second source-name parameter PSRJ, or a spin frequency F0.
InitRead ==
  /\ lists = <<<<>>, <<"PSRJ", "PSRB">>>>
  /\ \E v1 \in {None, Str(<<Word("J1234")>>)} :
       \/ \E v \in {None, Str(<<Word("J0437")>>)} :
            /\ heap = <<Parameter("PSR", v1, None, TRUE, TRUE, 2, "str"),
                        Parameter("PSRJ", v, None, TRUE, TRUE, DefaultAliases, "str")>>
            /\ params = <<"PSR", "PSRJ">>
            /\ attrs = ("PSR" :> 1) @@ ("PSRJ" :> 2)
            /\ delay_derivs = ("PSR" :> <<>>) @@ ("PSRJ" :> <<>>)
            /\ phase_derivs = ("PSR" :> <<>>) @@ ("PSRJ" :> <<>>)
       \/ \E v \in {None, Flt(FALSE, <<1, 5>>, 0),
                    Flt(FALSE, <<1>> \o Zeros(MaxSigDigits - 2) \o <<5>>, 0)},
             u \in {None, Flt(FALSE, <<2, 5>>, -4)}, fz \in BOOLEAN :
            /\ heap = <<Parameter("PSR", v1, None, TRUE, TRUE, 2, "str"),
                        Parameter("F0", v, u, fz, TRUE, DefaultAliases, "fortran_float")>>
            /\ params = <<"PSR", "F0">>
            /\ attrs = ("PSR" :> 1) @@ ("F0" :> 2)
            /\ delay_derivs = ("PSR" :> <<>>) @@ ("F0" :> <<>>)
            /\ phase_derivs = ("PSR" :> <<>>) @@ ("F0" :> <<>>)
  /\ pc = "idle" /\ file = <<>> /\ idx = 1 /\ warned = <<>> /\ setupCalls = 0
  /\ fileOpen = FALSE /\ snap = <<>>
  /\ call = NoCall

\* read_parfile(filename) up to the loop: pfile = open(filename,'r') and
\* pfile.readlines().  own: the file holds the text as_parfile() has just
\* returned; otherwise it holds the lines f.
ReadParfile(f, own) ==
  /\ pc # "reading"
  /\ pc' = "reading"
  /\ fileOpen' = TRUE
  /\ file' = IF own THEN as_parfile(params) ELSE f
  /\ snap' = IF own THEN heap ELSE <<>>
  /\ idx' = 1 /\ warned' = <<>> /\ setupCalls' = 0
  /\ call' = [NoCall EXCEPT !.op = "read_parfile"]
  /\ UNCHANGED <<heap, lists, modelVars>>

\* One iteration of the loop over the lines.  An exception of a parser leaves
\* the loop and the function; nothing in read_parfile closes pfile, and the
\* frame the traceback holds keeps it open.
ReadLine ==
  /\ pc = "reading" /\ idx <= Len(file)
  /\ LET l == file[idx] IN
     IF SkipLine(l)
     THEN /\ idx' = idx + 1
          /\ UNCHANGED <<heap, warned, pc, call>>
     ELSE LET r == OfferLine(params, l, heap, FALSE) IN
          /\ heap' = r.heap
          /\ IF r.exc # ""
             THEN /\ pc' = "raised"
                  /\ call' = [call EXCEPT !.exc = r.exc]
                  /\ UNCHANGED <<idx, warned>>
             ELSE /\ idx' = idx + 1
                  /\ warned' = IF ~r.parsed THEN Append(warned, l) ELSE warned
                  /\ UNCHANGED <<pc, call>>
  /\ UNCHANGED <<lists, modelVars, file, setupCalls, fileOpen, snap>>

\* After the loop: self.setup() and the return.  pfile is never closed: the
\* handle is released when the interpreter collects the file object, at the
\* return (reference counting) or later (any other collector).
ReadReturn ==
  /\ pc = "reading" /\ idx > Len(file)
  /\ setupCalls' = setupCalls + 1
  /\ pc' = "returned"
  /\ \E released \in BOOLEAN : fileOpen' = ~released
  /\ UNCHANGED <<heap, lists, modelVars, file, idx, warned, snap, call>>

NextRead ==
  \/ \E f \in Files : ReadParfile(f, FALSE)
  \/ ReadParfile(<<>>, TRUE)
  \/ ReadLine
  \/ ReadReturn

SpecRead == InitRead /\ [][NextRead]_vars

\* ---------------------------------------------------- claims: Parameter
\* The line of the last call is one its parameter claims and whose value the
\* parameter's parser accepts: from_parfile_line got as far as the fit flag.
ClaimedLine(p, k) ==
  /\ Len(k) >= 2
  /\ NameMatches(heap[p], Upper(k[1]), lists)
  /\ ParseValue(heap[p].parse, k[2]) # ValueError

\* C3: the line as_parfile_line makes of a Parameter with a non-null value,
\* fed to from_parfile_line of a fresh parameter of the same name, is claimed
\* and leaves the fresh parameter with the original's value, uncertainty and
\* frozen.
C3_RoundTripEqual ==
  (call.op = "round_trip" /\ heap[1].value # None) =>
     /\ call.ret = TRUE /\ call.exc = ""
     /\ heap[2].value = heap[1].value
     /\ heap[2].uncertainty = heap[1].uncertainty
     /\ heap[2].frozen = heap[1].frozen

\* C5: on a claimed line an integer third token > 0 sets frozen to false, an
\* integer third token <= 0 or no third token leaves frozen as it was, and no
\* call of from_parfile_line turns frozen from false to true.
C5_FitFlagOnlyUnfreezes ==
  [][call'.op = "from_parfile_line" =>
       LET p == call'.obj
           k == call'.line
           flag == PyInt(k[3])
       IN  /\ (ClaimedLine(p, k) /\ Len(k) >= 3 /\ flag.ok /\ flag.n > 0)
                => heap'[p].frozen = FALSE
           /\ (ClaimedLine(p, k) /\ (Len(k) < 3 \/ (flag.ok /\ flag.n <= 0)))
                => heap'[p].frozen = heap[p].frozen
           /\ ~heap[p].frozen => ~heap'[p].frozen]_vars

\* C5 witness: an unfrozen parameter has claimed a line whose fit flag is an
\* integer <= 0 and is still unfrozen.
C5_Witness ==
  /\ call.op = "from_parfile_line" /\ call.ret
  /\ Len(call.line) >= 3 /\ PyInt(call.line[3]).ok /\ PyInt(call.line[3]).n <= 0
  /\ ~heap[call.obj].frozen

\* C6: after from_parfile_line claims a line of four or more tokens, the
\* uncertainty is the default numeric parse of the fourth token.
C6_FourthTokenStored ==
  (call.op = "from_parfile_line" /\ call.ret /\ Len(call.line) >= 4) =>
     heap[call.obj].uncertainty = FortranFloat(call.line[4])

\* -------------------------------------------------- claims: TimingModel
Registered(name) == \E i \in 1..Len(params) : params[i] = name

\* The alias names of Parameter object q.
AliasesOf(q) == {lists[heap[q].aliases][i] : i \in 1..Len(lists[heap[q].aliases])}

\* C1: add_param of a parameter whose name is already registered raises
\* DuplicateParameter carrying that name and changes neither params, nor the
\* attribute bound to the name, nor the keys of delay_derivs and phase_derivs.
C1_DuplicateNameRejected ==
  [][(call'.op = "add_param" /\ Registered(heap[call'.obj].name)) =>
       LET name == heap[call'.obj].name
       IN  /\ call'.exc = "DuplicateParameter" /\ call'.excArg = name
           /\ params' = params
           /\ name \in DOMAIN attrs' /\ attrs'[name] = attrs[name]
           /\ DOMAIN delay_derivs' = DOMAIN delay_derivs
           /\ DOMAIN phase_derivs' = DOMAIN phase_derivs]_vars

\* C1 witness: add_param has just refused a second Parameter object whose
\* name is registered to another object.
C1_Witness ==
  /\ call.op = "add_param" /\ call.exc = "DuplicateParameter"
  /\ Registered(heap[call.obj].name)
  /\ attrs[heap[call.obj].name] # call.obj

\* C2: add_param of a parameter whose name is an alias of a registered
\* parameter raises DuplicateParameter, and so no two registered parameters
\* ever share a name or an alias.
C2_AliasCollisionRejected ==
  /\ (call.op = "add_param"
        /\ \E i \in 1..Len(params) :
             /\ attrs[params[i]] # call.obj
             /\ heap[call.obj].name \in AliasesOf(attrs[params[i]]))
       => call.exc = "DuplicateParameter"
  /\ \A i, j \in 1..Len(params) :
       i # j => LET p == attrs[params[i]]
                    q == attrs[params[j]]
                IN  ({heap[p].name} \cup AliasesOf(p)) \cap ({heap[q].name} \cup AliasesOf(q)) = {}

\* C7: d_delay_d_param of a registered parameter does not raise and returns
\* the sum of the providers registered for it, zero when there are none.
C7_NoProvidersGivesZero ==
  (call.op = "d_delay_d_param" /\ Registered(call.arg)) =>
     /\ call.exc = ""
     /\ call.num = IF call.arg \in DOMAIN delay_derivs THEN Sum(delay_derivs[call.arg]) ELSE 0

\* C10: add_alias on one Parameter leaves the aliases of every other
\* Parameter as they were, so no other Parameter starts claiming a line.
C10_AddAliasChangesOnlySelf ==
  [][call'.op = "add_alias" =>
       \A q \in 1..Len(heap) :
         q # call'.obj =>
           /\ lists'[heap'[q].aliases] = lists[heap[q].aliases]
           /\ \A line \in AliasLines :
                from_parfile_line(heap'[q], line, lists').ret
                  => from_parfile_line(heap[q], line, lists).ret]_vars

\* ------------------------------------------------- claims: read_parfile
\* Parameter p claims line l: its first token, in upper case, is the name or
\* an alias of p and a second token follows.
Claims(p, l) == Len(l) >= 2 /\ NameMatches(heap[p], Upper(l[1]), lists)

\* A line that is neither blank nor a comment and that no registered
\* parameter claims.
Unclaimed(l) ==
  /\ Len(l) > 0 /\ ~StartsWithHash(l)
  /\ \A i \in 1..Len(params) : ~Claims(attrs[params[i]], l)

\* The lines of the file processed so far that parameter p claimed.
ClaimedBy(p) ==
  {i \in 1..(idx - 1) : Len(file[i]) > 0 /\ ~StartsWithHash(file[i]) /\ Claims(p, file[i])}

Last(S) == CHOOSE i \in S : \A j \in S : j <= i

\* C4: after read_parfile has read back the text as_parfile produced, every
\* registered parameter whose value was non-null has the value, uncertainty
\* and frozen it had, and every parameter whose value was null is unchanged.
C4_ReloadKeepsState ==
  (pc \in {"returned", "raised"} /\ snap # <<>>) =>
     /\ pc = "returned"
     /\ \A i \in 1..Len(params) :
          LET p == attrs[params[i]] IN
          IF snap[p].value # None
          THEN /\ heap[p].value = snap[p].value
               /\ heap[p].uncertainty = snap[p].uncertainty
               /\ heap[p].frozen = snap[p].frozen
          ELSE heap[p] = snap[p]

\* C8: read_parfile takes the lines in order; blank and '#' lines are
\* skipped; every other line no registered parameter claims gives exactly one
\* warning and the read goes on, the claimed lines before and after it taking
\* effect; setup() is called exactly once, after the last line.
C8_ReadProcessesEveryLine ==
  (pc \in {"reading", "returned", "raised"}) =>
     /\ warned = SelectSeq(SubSeq(file, 1, idx - 1), Unclaimed)
     /\ setupCalls = (IF pc = "returned" THEN 1 ELSE 0)
     /\ pc = "returned" => idx = Len(file) + 1
     /\ pc # "raised" =>
          \A i \in 1..Len(params) :
            LET p == attrs[params[i]] IN
            ClaimedBy(p) # {} =>
              heap[p].value = ParseValue(heap[p].parse, file[Last(ClaimedBy(p))][2])

\* C8 witness: a read has returned from a file whose first line no parameter
\* claimed and whose second line PSR claimed.
C8_Witness ==
  /\ pc = "returned" /\ Len(file) = 2 /\ setupCalls = 1
  /\ warned = <<file[1]>>
  /\ Claims(attrs["PSR"], file[2])
  /\ heap[attrs["PSR"]].value = Str(<<file[2][2]>>)

\* C9: when read_parfile has returned or raised, the handle it opened is
\* closed.
C9_HandleReleased == pc \in {"returned", "raised"} => ~fileOpen

====
